---- MODULE Spec2Model ----
(***************************************************************************)
(* Document Operations server (src/sample_files/server.py): the nine tool  *)
(* handlers, each one try block behind one except clause, over a small     *)
(* file system.  A behaviour is one tool call: Init draws the request and  *)
(* the files it finds, the actions run the handler to its return.          *)
(*                                                                         *)
(* The format libraries (python-docx, openpyxl, pandas, reportlab,         *)
(* docx2pdf) are modelled by their documented behaviour on the calls the   *)
(* handlers make, at the line of each call.                                *)
(***************************************************************************)
EXTENDS Integers, Sequences, FiniteSets, TLC

\* ---------------------------------------------------------------- bounds

\* Longest text (in characters) of a content string or a source text file.
MaxText == 3
\* Longest batch of operation descriptors of one edit call.
MaxOps == 2
\* Most content lines of one create_pdf_file call.
MaxLines == 100
\* Largest row and column count of a JSON content grid.
MaxGrid == 2

\* ------------------------------------------------------------- constants

\* letter = (612, 792): the page height create_pdf_file unpacks.
PageHeight == 792
\* The top and bottom margin of create_pdf_file.
Margin == 40
\* The line height of create_pdf_file.
LineHeight == 15
\* The x coordinate of every drawn string.
LeftMargin == 40

\* Python's None.
None == "None"

\* ------------------------------------------------------------------ text

\* A str is a sequence of characters; these are the characters of the inputs.
NL == "\n"
Chars == {"a", " ", ",", NL}
Whitespace == {" ", NL}

RECURSIVE TextsOfLen(_)
TextsOfLen(n) ==
    IF n = 0 THEN {<< >>}
    ELSE {Append(t, c) : t \in TextsOfLen(n - 1), c \in Chars}

Texts == UNION {TextsOfLen(n) : n \in 0..MaxText}

\* str.split(sep): the pieces between the separators, always at least one.
\* The text is split in halves: the last piece of the left half and the first
\* piece of the right half are one piece.
RECURSIVE Split(_, _)
Split(s, sep) ==
    IF Len(s) = 0 THEN << << >> >>
    ELSE IF Len(s) = 1 THEN (IF s[1] = sep THEN << << >>, << >> >> ELSE <<s>>)
    ELSE LET mid == Len(s) \div 2
             left == Split(SubSeq(s, 1, mid), sep)
             right == Split(SubSeq(s, mid + 1, Len(s)), sep)
         IN SubSeq(left, 1, Len(left) - 1)
            \o <<left[Len(left)] \o right[1]>>
            \o Tail(right)

\* str.strip(): leading and trailing whitespace removed.
RECURSIVE LStrip(_)
LStrip(s) ==
    IF s # << >> /\ Head(s) \in Whitespace THEN LStrip(Tail(s)) ELSE s

RECURSIVE RStrip(_)
RStrip(s) ==
    IF s # << >> /\ s[Len(s)] \in Whitespace
    THEN RStrip(SubSeq(s, 1, Len(s) - 1)) ELSE s

Strip(s) == RStrip(LStrip(s))

\* sep.join(parts).
RECURSIVE Join(_, _)
Join(parts, sep) ==
    IF parts = << >> THEN << >>
    ELSE IF Len(parts) = 1 THEN parts[1]
    ELSE parts[1] \o <<sep>> \o Join(Tail(parts), sep)

\* [f(x) for x in s if p(x)] for the identity f.
RECURSIVE SelectSeqNonBlank(_)
SelectSeqNonBlank(s) ==
    IF s = << >> THEN << >>
    ELSE IF Strip(Head(s)) # << >> THEN <<Head(s)>> \o SelectSeqNonBlank(Tail(s))
    ELSE SelectSeqNonBlank(Tail(s))

\* dict.get(key, default).
Get(op, key, default) == IF key \in DOMAIN op THEN op[key] ELSE default

\* A list element that is no dict (a str, a number): .get raises AttributeError.
NotADict == [py_type |-> "str"]
IsDict(op) == "py_type" \notin DOMAIN op

\* Sequences over S of length at most n.
RECURSIVE SeqsUpTo(_, _)
SeqsUpTo(S, n) ==
    IF n = 0 THEN {<< >>}
    ELSE SeqsUpTo(S, n - 1) \cup
         {Append(t, x) : t \in {u \in SeqsUpTo(S, n - 1) : Len(u) = n - 1}, x \in S}

\* s without its i-th element.
RemoveAt(s, i) == SubSeq(s, 1, i - 1) \o SubSeq(s, i + 1, Len(s))

\* ----------------------------------------------------------- file system

\* The two paths of a call: filepath or target_path, and source_path.
TargetPath == "target"
SourcePath == "source"

\* What a path holds.
Absent == [kind |-> "absent"]
Garbage == [kind |-> "garbage"]
TxtFile(t) == [kind |-> "text", text |-> t]
DocxFile(d) == [kind |-> "docx", paragraphs |-> d]
XlsxFile(w) == [kind |-> "xlsx", sheets |-> w]
PdfFile(p) == [kind |-> "pdf", pages |-> p]

\* os.path.exists(path).
Exists(files, path) == files[path].kind # "absent"

\* The volume: "blocked" refuses to create a directory, "readonly" refuses to
\* open a file for writing, "full" truncates the file and fails the write.
DiskStates == {"ok", "blocked", "readonly", "full"}

\* ------------------------------------------------------- result envelope

\* The dict a handler returns on success.
Success(message, path) ==
    [success |-> TRUE, message |-> <<message>>, filepath |-> path]

\* The dict a handler returns on failure: detail is the missing path or str(e).
Failure(message, detail) ==
    [success |-> FALSE, message |-> <<message, detail>>, filepath |-> None]

\* extract_docx_text's two dicts: a content key and no filepath key.
ExtractSuccess(text) ==
    [success |-> TRUE,
     message |-> <<"Successfully extracted text from .docx file">>,
     content |-> text]

ExtractFailure(message, detail) ==
    [success |-> FALSE, message |-> <<message, detail>>, content |-> << >>]

\* No dict yet: the call has not returned.
NoResult == [pending |-> TRUE]

\* ------------------------------------------------- python-docx documents

\* A document handle is the sequence of its body paragraphs.
Paragraph(text, style) == [text |-> text, style |-> style]

\* Document(): the default template has no paragraph.
NewDocument == << >>

\* doc.add_paragraph(text).
AddParagraph(d, text) == Append(d, Paragraph(text, <<"Normal">>))

\* doc.add_heading(text, level): a paragraph styled Title (level 0) or
\* Heading <level>; python-docx raises ValueError outside 0..9.
HeadingLevels == 0..9
AddHeading(d, text, level) == Append(d, Paragraph(text, <<"Heading", level>>))

\* Document(filepath): the handle of a .docx file; anything else raises.
LoadsAsDocx(f) == f.kind = "docx"

\* An else branch that raises instead of logging a warning.
RaiseOnUnknown(handle) == [exc |-> "ValueError", doc |-> handle]

\* The else branch of both descriptor loops: a warning is logged, the handle
\* stays as it is and the loop goes on.
SkipUnknown(handle) == [exc |-> "none", doc |-> handle]

\* The index test of edit_paragraph and delete_paragraph.
ParagraphIndexInRange(idx, d) == 0 <= idx /\ idx < Len(d)

\* One descriptor of edit_word_document applied to the handle d:
\* [exc |-> the exception it raises or "none", doc |-> the handle after it].
ApplyWordOp(d, op) ==
    IF ~IsDict(op) THEN [exc |-> "AttributeError", doc |-> d]
    ELSE LET op_type == Get(op, "type", None) IN
      CASE op_type = "add_paragraph" ->
             [exc |-> "none", doc |-> AddParagraph(d, Get(op, "text", << >>))]
        [] op_type = "add_heading" ->
             LET level == Get(op, "level", 1) IN
             IF level \in HeadingLevels
             THEN [exc |-> "none",
                   doc |-> AddHeading(d, Get(op, "text", << >>), level)]
             ELSE [exc |-> "ValueError", doc |-> d]
        [] op_type = "edit_paragraph" ->
             LET idx == Get(op, "index", 0)
                 new_text == Get(op, "text", << >>) IN
             IF ParagraphIndexInRange(idx, d)
             THEN [exc |-> "none",
                   doc |-> [d EXCEPT ![idx + 1].text = new_text]]
             ELSE [exc |-> "none", doc |-> d]
        [] op_type = "delete_paragraph" ->
             LET idx == Get(op, "index", 0) IN
             IF ParagraphIndexInRange(idx, d)
             THEN [exc |-> "none", doc |-> RemoveAt(d, idx + 1)]
             ELSE [exc |-> "none", doc |-> d]
        [] OTHER -> SkipUnknown(d)

\* The descriptors the word edit calls are drawn from.
WordDescriptors ==
    { [type |-> "add_paragraph", text |-> <<"x">>],
      [type |-> "add_heading", text |-> <<"h">>],
      [type |-> "add_heading", text |-> <<"h">>, level |-> 10],
      [type |-> "edit_paragraph", index |-> 0, text |-> <<"y">>],
      [type |-> "edit_paragraph", index |-> 999, text |-> <<"y">>],
      [type |-> "edit_paragraph", index |-> -1, text |-> <<"y">>],
      [type |-> "delete_paragraph"],
      [type |-> "delete_paragraph", index |-> 1],
      [type |-> "delete_paragraph", index |-> 999],
      [type |-> "delete_paragraph", index |-> -1],
      [type |-> "frobnicate", index |-> 0, text |-> <<"z">>],
      [text |-> <<"z">>],
      NotADict }

\* The .docx files an edit or extract call may find.
WordDocuments ==
    { << >>,
      <<Paragraph(<<"a">>, <<"Normal">>)>>,
      <<Paragraph(<<"a">>, <<"Normal">>), Paragraph(<<" ">>, <<"Normal">>)>>,
      <<Paragraph(<<"a">>, <<"Heading", 1>>), Paragraph(<<"b">>, <<"Normal">>),
        Paragraph(<<"c">>, <<"Normal">>)>> }

\* --------------------------------------------------- openpyxl workbooks

\* A cell value: a str or an int, its text a sequence of characters.
StrValue(t) == [t |-> "str", v |-> t]
IntValue(t) == [t |-> "int", v |-> t]

\* A workbook handle is the sequence of its sheets, in tab order; a sheet's
\* cells are the triples <<row, column, value>> of its non-empty cells.
Sheet(name, cells) == [name |-> name, cells |-> cells]

\* wb.sheetnames.
SheetNames(wb) == [k \in 1..Len(wb) |-> wb[k].name]
SheetNameSet(wb) == {wb[k].name : k \in 1..Len(wb)}

\* The position of the sheet called name.
SheetIndex(wb, name) == CHOOSE k \in 1..Len(wb) : wb[k].name = name

\* A title openpyxl refuses (it holds one of \ / ? * [ ] :): ValueError.
InvalidTitle == "a/b"
ValidTitle(name) == name # InvalidTitle

\* wb.create_sheet(name): a new empty sheet after the others.
CreateSheet(wb, name) == Append(wb, Sheet(name, {}))

\* del wb[name].
RemoveSheet(wb, name) == RemoveAt(wb, SheetIndex(wb, name))

\* sheet.cell(row, column, value) on the cells of a sheet, row, column >= 1.
SetCell(cells, row, col, value) ==
    {t \in cells : ~(t[1] = row /\ t[2] = col)} \cup {<<row, col, value>>}

\* sheet.cell of openpyxl raises ValueError for a row or column below 1.
CellAddressable(row, col) == row >= 1 /\ col >= 1

\* sheet.delete_rows(idx), idx >= 1: the row goes, the rows below move up.
DeleteRows(cells, idx) ==
    {t \in cells : t[1] < idx} \cup
    {<<t[1] - 1, t[2], t[3]>> : t \in {u \in cells : u[1] > idx}}

\* sheet.delete_cols(idx), idx >= 1.
DeleteCols(cells, idx) ==
    {t \in cells : t[2] < idx} \cup
    {<<t[1], t[2] - 1, t[3]>> : t \in {u \in cells : u[2] > idx}}

\* The inner loop of update_range: row_values[j..] into row, from start_col.
RECURSIVE WriteRow(_, _, _, _, _)
WriteRow(cells, row, start_col, row_values, j) ==
    IF j >= Len(row_values) THEN cells
    ELSE WriteRow(SetCell(cells, row, start_col + j, row_values[j + 1]),
                  row, start_col, row_values, j + 1)

\* The outer loop of update_range: values[i..] from start_row.
RECURSIVE WriteRange(_, _, _, _, _)
WriteRange(cells, start_row, start_col, values, i) ==
    IF i >= Len(values) THEN cells
    ELSE WriteRange(WriteRow(cells, start_row + i, start_col, values[i + 1], 0),
                    start_row, start_col, values, i + 1)

\* Whether every cell of update_range is addressable.
RangeAddressable(start_row, start_col, values) ==
    \A i \in 1..Len(values) : \A j \in 1..Len(values[i]) :
        CellAddressable(start_row + i - 1, start_col + j - 1)

\* load_workbook(filepath): the handle of an .xlsx file; anything else raises.
LoadsAsXlsx(f) == f.kind = "xlsx"

\* The workbook with the cells of the sheet called name replaced.
WithCells(wb, name, cells) ==
    [wb EXCEPT ![SheetIndex(wb, name)].cells = cells]

CellsOf(wb, name) == wb[SheetIndex(wb, name)].cells

\* delete_sheet without the count: the last sheet may go.
MayDeleteAnySheet(wb, sheet_name) == sheet_name \in SheetNameSet(wb)

\* The test of delete_sheet: the sheet is there and is not the only one.
MayDeleteSheet(wb, sheet_name) ==
    sheet_name \in SheetNameSet(wb) /\ Len(wb) > 1

\* create_sheet with no test: every name counts as new.
SheetAlwaysMissing(wb, name) == TRUE

\* The test before both create_sheet calls: the name is not taken.
SheetMissing(wb, name) == name \notin SheetNameSet(wb)

\* One descriptor of edit_excel_file applied to the handle wb:
\* [exc |-> the exception it raises or "none", doc |-> the handle after it].
ApplyExcelOp(wb, op) ==
    IF ~IsDict(op) THEN [exc |-> "AttributeError", doc |-> wb]
    ELSE IF wb = << >> THEN [exc |-> "IndexError", doc |-> wb]
    ELSE
      LET op_type == Get(op, "type", None)
          sheet_name == Get(op, "sheet", SheetNames(wb)[1])
          implicit == SheetMissing(wb, sheet_name)
          wb1 == IF implicit THEN CreateSheet(wb, sheet_name) ELSE wb
      IN
      IF implicit /\ ~ValidTitle(sheet_name)
      THEN [exc |-> "ValueError", doc |-> wb]
      ELSE
        CASE op_type = "update_cell" ->
               LET row == Get(op, "row", 1)
                   col == Get(op, "col", 1)
                   value == Get(op, "value", StrValue(<< >>)) IN
               IF CellAddressable(row, col)
               THEN [exc |-> "none",
                     doc |-> WithCells(wb1, sheet_name,
                              SetCell(CellsOf(wb1, sheet_name), row, col, value))]
               ELSE [exc |-> "ValueError", doc |-> wb1]
          [] op_type = "update_range" ->
               LET start_row == Get(op, "start_row", 1)
                   start_col == Get(op, "start_col", 1)
                   values == Get(op, "values", << >>) IN
               IF RangeAddressable(start_row, start_col, values)
               THEN [exc |-> "none",
                     doc |-> WithCells(wb1, sheet_name,
                              WriteRange(CellsOf(wb1, sheet_name),
                                         start_row, start_col, values, 0))]
               ELSE [exc |-> "ValueError", doc |-> wb1]
          [] op_type = "delete_row" ->
               [exc |-> "none",
                doc |-> WithCells(wb1, sheet_name,
                         DeleteRows(CellsOf(wb1, sheet_name), Get(op, "row", 1)))]
          [] op_type = "delete_column" ->
               [exc |-> "none",
                doc |-> WithCells(wb1, sheet_name,
                         DeleteCols(CellsOf(wb1, sheet_name), Get(op, "col", 1)))]
          [] op_type = "add_sheet" ->
               LET new_sheet_name == Get(op, "name", "NewSheet") IN
               IF SheetMissing(wb1, new_sheet_name)
               THEN IF ValidTitle(new_sheet_name)
                    THEN [exc |-> "none", doc |-> CreateSheet(wb1, new_sheet_name)]
                    ELSE [exc |-> "ValueError", doc |-> wb1]
               ELSE [exc |-> "none", doc |-> wb1]
          [] op_type = "delete_sheet" ->
               IF MayDeleteSheet(wb1, sheet_name)
               THEN [exc |-> "none", doc |-> RemoveSheet(wb1, sheet_name)]
               ELSE [exc |-> "none", doc |-> wb1]
          [] OTHER -> SkipUnknown(wb1)

\* The descriptors the excel edit calls are drawn from (delete_row and
\* delete_column with the indices openpyxl documents, 1 and above).
ExcelDescriptors ==
    { [type |-> "update_cell", row |-> 1, col |-> 1, value |-> StrValue(<<"x">>)],
      [type |-> "update_cell", row |-> 0, col |-> 1, value |-> StrValue(<<"x">>)],
      [type |-> "update_cell", sheet |-> "New", row |-> 9, col |-> 9,
       value |-> StrValue(<<"x">>)],
      [type |-> "update_range", start_row |-> 1, start_col |-> 2,
       values |-> <<<<StrValue(<<"x">>), StrValue(<<"y">>)>>, <<StrValue(<<"y">>)>>>>],
      [type |-> "delete_row"],
      [type |-> "delete_row", row |-> 9],
      [type |-> "delete_column", col |-> 9],
      [type |-> "add_sheet", name |-> "New"],
      [type |-> "add_sheet", name |-> "Data"],
      [type |-> "add_sheet", name |-> InvalidTitle],
      [type |-> "delete_sheet"],
      [type |-> "delete_sheet", sheet |-> "New"],
      [type |-> "frobnicate", row |-> 1, col |-> 1],
      [type |-> "frobnicate", sheet |-> "New"],
      [type |-> "frobnicate", sheet |-> InvalidTitle],
      NotADict }

\* The .xlsx files an edit call may find: a workbook has at least one sheet.
Workbooks ==
    { <<Sheet("Sheet1", {})>>,
      <<Sheet("Data", {<<1, 1, StrValue(<<"a">>)>>, <<1, 2, StrValue(<<"b">>)>>,
                       <<2, 1, StrValue(<<"c">>)>>, <<2, 2, StrValue(<<"d">>)>>})>>,
      <<Sheet("Sheet1", {<<1, 1, StrValue(<<"a">>)>>}),
        Sheet("Data", {<<2, 2, StrValue(<<"b">>)>>})>> }

\* ------------------------------------------------------ json and pandas

\* A JSON text is a sequence of lexemes: brackets, commas and scalars.
JsonScalars == {"\"a\"", "\"b\"", "\"1\"", "\"2\"", "7"}

\* The Python value of a scalar lexeme.
ScalarValue(lexeme) ==
    CASE lexeme = "\"a\"" -> StrValue(<<"a">>)
      [] lexeme = "\"b\"" -> StrValue(<<"b">>)
      [] lexeme = "\"1\"" -> StrValue(<<"1">>)
      [] lexeme = "\"2\"" -> StrValue(<<"2">>)
      [] lexeme = "7" -> IntValue(<<"7">>)

\* A parsed value: a scalar, or a list of parsed values.
JsonList(items) == [t |-> "list", v |-> items]

ParseError == [ok |-> FALSE]

\* json.loads, by recursive descent: a value at lexeme k, then the elements
\* of an array up to its closing bracket.
RECURSIVE ParseValue(_, _)
RECURSIVE ParseElements(_, _, _)
ParseValue(text, k) ==
    IF k > Len(text) THEN ParseError
    ELSE IF text[k] = "[" THEN
        IF k + 1 <= Len(text) /\ text[k + 1] = "]"
        THEN [ok |-> TRUE, val |-> JsonList(<< >>), next |-> k + 2]
        ELSE ParseElements(text, k + 1, << >>)
    ELSE IF text[k] \in JsonScalars
        THEN [ok |-> TRUE, val |-> ScalarValue(text[k]), next |-> k + 1]
    ELSE ParseError

ParseElements(text, k, acc) ==
    LET item == ParseValue(text, k) IN
    IF ~item.ok THEN ParseError
    ELSE IF item.next > Len(text) THEN ParseError
    ELSE IF text[item.next] = ","
        THEN ParseElements(text, item.next + 1, Append(acc, item.val))
    ELSE IF text[item.next] = "]"
        THEN [ok |-> TRUE, val |-> JsonList(Append(acc, item.val)),
              next |-> item.next + 1]
    ELSE ParseError

\* json.loads(content): the value, or JSONDecodeError (ok is FALSE).
JsonLoads(text) ==
    LET top == ParseValue(text, 1) IN
    IF top.ok /\ top.next = Len(text) + 1
    THEN [ok |-> TRUE, val |-> top.val] ELSE ParseError

\* The JSON text of a row of scalar lexemes, and of rows of them.
RECURSIVE CommaJoin(_)
CommaJoin(parts) ==
    IF parts = << >> THEN << >>
    ELSE IF Len(parts) = 1 THEN parts[1]
    ELSE parts[1] \o <<",">> \o CommaJoin(Tail(parts))

JsonRow(row) == <<"[">> \o CommaJoin([k \in 1..Len(row) |-> <<row[k]>>]) \o <<"]">>
JsonRows(rows) ==
    <<"[">> \o CommaJoin([k \in 1..Len(rows) |-> JsonRow(rows[k])]) \o <<"]">>

\* A DataFrame: its column labels and its rows, each as wide as the labels;
\* a missing cell is NaN.
NaN == [t |-> "nan", v |-> << >>]
Frame(columns, rows) == [columns |-> columns, rows |-> rows]

Digits == <<"0", "1", "2", "3", "4", "5", "6", "7", "8", "9">>
\* The default column label k of a frame built from rows: the int k.
RangeLabel(k) == IntValue(<<Digits[k + 1]>>)

Max(S) == CHOOSE x \in S : \A y \in S : y <= x

\* pd.DataFrame(rows) for a list of rows: labels 0..width-1, short rows padded.
FrameOfRows(rows) ==
    LET width == Max({0} \cup {Len(rows[r]) : r \in 1..Len(rows)}) IN
    Frame([c \in 1..width |-> RangeLabel(c - 1)],
          [r \in 1..Len(rows) |->
             [c \in 1..width |-> IF c <= Len(rows[r]) THEN rows[r][c] ELSE NaN]])

\* pd.DataFrame(data) for a parsed JSON value: a list of lists gives one row
\* per inner list, a list of scalars one column, a scalar raises ValueError.
IsList(x) == x.t = "list"
DataFrameOfJson(data) ==
    IF ~IsList(data) THEN [exc |-> "ValueError"]
    ELSE IF \A r \in 1..Len(data.v) : IsList(data.v[r])
         THEN [exc |-> "none",
               df |-> FrameOfRows([r \in 1..Len(data.v) |-> data.v[r].v])]
    ELSE IF \A r \in 1..Len(data.v) : ~IsList(data.v[r])
         THEN [exc |-> "none",
               df |-> FrameOfRows([r \in 1..Len(data.v) |-> <<data.v[r]>>])]
    ELSE [exc |-> "ValueError"]

\* The fallback of create_excel_file: the lines of the stripped content, each
\* split at its commas, every cell a str.
CsvFallback(content) ==
    LET lines == Split(Strip(content), NL) IN
    [r \in 1..Len(lines) |->
       LET cells == Split(lines[r], ",") IN
       [c \in 1..Len(cells) |-> StrValue(cells[c])]]

\* df.to_excel(path, index=False): one sheet, Sheet1; the header defaults to
\* True, so row 1 holds the column labels and the data starts at row 2.
ToExcel(df) ==
    <<Sheet("Sheet1",
        {<<1, c, df.columns[c]>> : c \in 1..Len(df.columns)} \cup
        {t \in {<<r + 1, c, df.rows[r][c]>> :
                   r \in 1..Len(df.rows), c \in 1..Len(df.columns)} :
           t[3] # NaN})>>

\* ------------------------------------------------------------ reportlab

\* A canvas: the pages shown so far and the strings drawn on the open page.
NewCanvas == [pages |-> << >>, page |-> << >>]

\* c.drawString(x, y, text).
DrawString(c, x, y, text) ==
    [c EXCEPT !.page = Append(@, [x |-> x, y |-> y, text |-> text])]

\* c.showPage(): the open page is closed and a new one begins.
ShowPage(c) == [pages |-> Append(c.pages, c.page), page |-> << >>]

\* The pages c.save() writes: it shows the open page when it holds anything.
SavedPages(c) == IF c.page # << >> THEN Append(c.pages, c.page) ELSE c.pages

\* ------------------------------------------------------------- the state

VARIABLES
    request,     \* the tool call: its tool and its arguments
    files,       \* the file system: what each of the two paths holds
    files0,      \* the file system when the call arrived
    disk,        \* the state of the volume
    converter,   \* whether docx2pdf finds a word processor to drive
    pc,          \* "call", "apply" (a descriptor loop), "draw", "done"
    doc,         \* the open handle: paragraphs, sheets, or None
    i,           \* the loop index: the next descriptor or line, from 1
    lines,       \* create_pdf_file: content.split('\n')
    y_position,  \* create_pdf_file: the cursor
    canvas,      \* create_pdf_file: the canvas
    saved,       \* whether the handler reached its save call
    exc,         \* the exception raised inside the try block, or "none"
    escaped,     \* whether an exception left the handler
    result       \* the dict returned, or NoResult

vars == <<request, files, files0, disk, converter, pc, doc, i, lines,
          y_position, canvas, saved, exc, escaped, result>>

\* os.makedirs(dirname, exist_ok=True): the exception it raises, or "none".
Makedirs(d) == IF d = "blocked" THEN "PermissionError" ELSE "none"

\* doc.save, wb.save, df.to_excel, c.save on the volume d:
\* [exc |-> the exception raised or "none", files |-> the files after it].
SaveFile(fs, d, path, content) ==
    CASE d = "ok" -> [exc |-> "none", files |-> [fs EXCEPT ![path] = content]]
      [] d = "readonly" -> [exc |-> "PermissionError", files |-> fs]
      [] d = "full" -> [exc |-> "OSError", files |-> [fs EXCEPT ![path] = Garbage]]
      [] d = "blocked" -> [exc |-> "FileNotFoundError", files |-> fs]

\* A return statement of the try block.
Returned(fs, envelope) ==
    [files |-> fs, result |-> envelope, exc |-> "none", escaped |-> FALSE]

\* An except clause that catches nothing: the exception leaves the handler.
Uncaught(fs, e, envelope) ==
    [files |-> fs, result |-> NoResult, exc |-> e, escaped |-> TRUE]

\* except Exception as e: the handler logs and returns its failure dict.
Caught(fs, e, envelope) ==
    [files |-> fs, result |-> envelope, exc |-> e, escaped |-> FALSE]

\* The end of a call with outcome out; reached says whether the handler got
\* to its save call.
Finish(out, reached) ==
    /\ files' = out.files
    /\ result' = out.result
    /\ exc' = out.exc
    /\ escaped' = out.escaped
    /\ saved' = reached
    /\ pc' = "done"

\* The file system with src at source_path and tgt at filepath/target_path.
Fs(src, tgt) == [p \in {SourcePath, TargetPath} |-> IF p = SourcePath THEN src ELSE tgt]

\* ------------------------------------------------- create_word_document

CreateWordOutcome(fs, d, content) ==
    LET document == AddParagraph(NewDocument, content)
        mk == Makedirs(d)
        sv == SaveFile(fs, d, TargetPath, DocxFile(document))
    IN IF mk # "none"
       THEN Caught(fs, mk, Failure("Error creating Word document", mk))
       ELSE IF sv.exc # "none"
       THEN Caught(sv.files, sv.exc, Failure("Error creating Word document", sv.exc))
       ELSE Returned(sv.files, Success("Successfully created Word document", TargetPath))

create_word_document ==
    /\ pc = "call"
    /\ request.tool = "create_word_document"
    /\ Finish(CreateWordOutcome(files, disk, request.content), Makedirs(disk) = "none")
    /\ UNCHANGED <<request, files0, disk, converter, doc, i, lines, y_position, canvas>>

\* --------------------------------------------------- edit_word_document

\* The existence check and Document(filepath).
EditWordOpen ==
    /\ pc = "call"
    /\ request.tool = "edit_word_document"
    /\ IF ~Exists(files, TargetPath)
       THEN /\ Finish(Returned(files, Failure("File not found", TargetPath)), FALSE)
            /\ UNCHANGED <<doc, i>>
       ELSE IF ~LoadsAsDocx(files[TargetPath])
       THEN /\ Finish(Caught(files, "PackageNotFoundError",
                        Failure("Error editing Word document", "PackageNotFoundError")),
                      FALSE)
            /\ UNCHANGED <<doc, i>>
       ELSE /\ doc' = files[TargetPath].paragraphs
            /\ i' = 1
            /\ pc' = "apply"
            /\ UNCHANGED <<files, result, exc, escaped, saved>>
    /\ UNCHANGED <<request, files0, disk, converter, lines, y_position, canvas>>

\* A pass of the loop that applies each descriptor to the document as it was
\* loaded, not to the document the earlier descriptors left.
EditWordApplyToLoaded ==
    /\ pc = "apply"
    /\ request.tool = "edit_word_document"
    /\ i <= Len(request.operations)
    /\ LET step == ApplyWordOp(files0[TargetPath].paragraphs,
                               request.operations[i]) IN
       /\ doc' = step.doc
       /\ IF step.exc # "none"
          THEN /\ Finish(Caught(files, step.exc,
                           Failure("Error editing Word document", step.exc)), FALSE)
               /\ UNCHANGED i
          ELSE /\ i' = i + 1
               /\ UNCHANGED <<files, result, exc, escaped, saved, pc>>
    /\ UNCHANGED <<request, files0, disk, converter, lines, y_position, canvas>>

\* One pass of the loop over operations.
EditWordApply ==
    /\ pc = "apply"
    /\ request.tool = "edit_word_document"
    /\ i <= Len(request.operations)
    /\ LET step == ApplyWordOp(doc, request.operations[i]) IN
       /\ doc' = step.doc
       /\ IF step.exc # "none"
          THEN /\ Finish(Caught(files, step.exc,
                           Failure("Error editing Word document", step.exc)), FALSE)
               /\ UNCHANGED i
          ELSE /\ i' = i + 1
               /\ UNCHANGED <<files, result, exc, escaped, saved, pc>>
    /\ UNCHANGED <<request, files0, disk, converter, lines, y_position, canvas>>

\* doc.save(filepath) and the return after the loop.
EditWordSave ==
    /\ pc = "apply"
    /\ request.tool = "edit_word_document"
    /\ i > Len(request.operations)
    /\ LET sv == SaveFile(files, disk, TargetPath, DocxFile(doc)) IN
       IF sv.exc # "none"
       THEN Finish(Caught(sv.files, sv.exc,
                     Failure("Error editing Word document", sv.exc)), TRUE)
       ELSE Finish(Returned(sv.files,
                     Success("Successfully edited Word document", TargetPath)), TRUE)
    /\ UNCHANGED <<request, files0, disk, converter, doc, i, lines, y_position, canvas>>

\* -------------------------------------------------- convert_txt_to_word

\* The loop over text_content.split('\n'): a paragraph per line that is not
\* blank.
RECURSIVE AddNonBlankLines(_, _)
AddNonBlankLines(d, ls) ==
    IF ls = << >> THEN d
    ELSE IF Strip(Head(ls)) # << >>
    THEN AddNonBlankLines(AddParagraph(d, Head(ls)), Tail(ls))
    ELSE AddNonBlankLines(d, Tail(ls))

ConvertTxtOutcome(fs, d) ==
    IF ~Exists(fs, SourcePath)
    THEN Returned(fs, Failure("Source file not found", SourcePath))
    ELSE IF fs[SourcePath].kind # "text"
    THEN Caught(fs, "UnicodeDecodeError",
                Failure("Error converting text to Word", "UnicodeDecodeError"))
    ELSE
      LET text_content == fs[SourcePath].text
          document == AddNonBlankLines(NewDocument, Split(text_content, NL))
          mk == Makedirs(d)
          sv == SaveFile(fs, d, TargetPath, DocxFile(document))
      IN IF mk # "none"
         THEN Caught(fs, mk, Failure("Error converting text to Word", mk))
         ELSE IF sv.exc # "none"
         THEN Caught(sv.files, sv.exc, Failure("Error converting text to Word", sv.exc))
         ELSE Returned(sv.files,
                Success("Successfully converted text to Word document", TargetPath))

convert_txt_to_word ==
    /\ pc = "call"
    /\ request.tool = "convert_txt_to_word"
    /\ Finish(ConvertTxtOutcome(files, disk),
              files[SourcePath].kind = "text" /\ Makedirs(disk) = "none")
    /\ UNCHANGED <<request, files0, disk, converter, doc, i, lines, y_position, canvas>>

\* ---------------------------------------------------- extract_docx_text

\* [para.text for para in doc.paragraphs if para.text.strip()].
ParagraphTexts(d) == SelectSeqNonBlank([k \in 1..Len(d) |-> d[k].text])

ExtractOutcome(fs) ==
    IF ~Exists(fs, TargetPath)
    THEN Returned(fs, ExtractFailure("File not found", TargetPath))
    ELSE IF ~LoadsAsDocx(fs[TargetPath])
    THEN Caught(fs, "PackageNotFoundError",
                ExtractFailure("Error reading Word file", "PackageNotFoundError"))
    ELSE Returned(fs, ExtractSuccess(Join(ParagraphTexts(fs[TargetPath].paragraphs), NL)))

extract_docx_text ==
    /\ pc = "call"
    /\ request.tool = "extract_docx_text"
    /\ Finish(ExtractOutcome(files), FALSE)
    /\ UNCHANGED <<request, files0, disk, converter, doc, i, lines, y_position, canvas>>

\* ---------------------------------------------------- create_excel_file

\* The try/except around json.loads: the parsed value as a frame, or the
\* fallback rows as a frame.
ContentFrame(content) ==
    LET parsed == JsonLoads(content) IN
    IF parsed.ok THEN DataFrameOfJson(parsed.val)
    ELSE [exc |-> "none", df |-> FrameOfRows(CsvFallback(content))]

CreateExcelOutcome(fs, d, content) ==
    LET frame == ContentFrame(content)
        mk == Makedirs(d)
    IN IF frame.exc # "none"
       THEN Caught(fs, frame.exc, Failure("Error creating Excel file", frame.exc))
       ELSE IF mk # "none"
       THEN Caught(fs, mk, Failure("Error creating Excel file", mk))
       ELSE LET sv == SaveFile(fs, d, TargetPath, XlsxFile(ToExcel(frame.df))) IN
         IF sv.exc # "none"
         THEN Caught(sv.files, sv.exc, Failure("Error creating Excel file", sv.exc))
         ELSE Returned(sv.files, Success("Successfully created Excel file", TargetPath))

create_excel_file ==
    /\ pc = "call"
    /\ request.tool = "create_excel_file"
    /\ Finish(CreateExcelOutcome(files, disk, request.content),
              ContentFrame(request.content).exc = "none" /\ Makedirs(disk) = "none")
    /\ UNCHANGED <<request, files0, disk, converter, doc, i, lines, y_position, canvas>>

\* ------------------------------------------------------ edit_excel_file

\* The existence check and openpyxl.load_workbook(filepath).
EditExcelOpen ==
    /\ pc = "call"
    /\ request.tool = "edit_excel_file"
    /\ IF ~Exists(files, TargetPath)
       THEN /\ Finish(Returned(files, Failure("File not found", TargetPath)), FALSE)
            /\ UNCHANGED <<doc, i>>
       ELSE IF ~LoadsAsXlsx(files[TargetPath])
       THEN /\ Finish(Caught(files, "InvalidFileException",
                        Failure("Error editing Excel file", "InvalidFileException")),
                      FALSE)
            /\ UNCHANGED <<doc, i>>
       ELSE /\ doc' = files[TargetPath].sheets
            /\ i' = 1
            /\ pc' = "apply"
            /\ UNCHANGED <<files, result, exc, escaped, saved>>
    /\ UNCHANGED <<request, files0, disk, converter, lines, y_position, canvas>>

\* The loop with wb.save moved into its body: every pass writes the file.
EditExcelApplySaving ==
    /\ pc = "apply"
    /\ request.tool = "edit_excel_file"
    /\ i <= Len(request.operations)
    /\ LET step == ApplyExcelOp(doc, request.operations[i]) IN
       /\ doc' = step.doc
       /\ IF step.exc # "none"
          THEN /\ Finish(Caught(files, step.exc,
                           Failure("Error editing Excel file", step.exc)), FALSE)
               /\ UNCHANGED i
          ELSE /\ i' = i + 1
               /\ files' = SaveFile(files, disk, TargetPath, XlsxFile(step.doc)).files
               /\ UNCHANGED <<result, exc, escaped, saved, pc>>
    /\ UNCHANGED <<request, files0, disk, converter, lines, y_position, canvas>>

\* One pass of the loop over operations.
EditExcelApply ==
    /\ pc = "apply"
    /\ request.tool = "edit_excel_file"
    /\ i <= Len(request.operations)
    /\ LET step == ApplyExcelOp(doc, request.operations[i]) IN
       /\ doc' = step.doc
       /\ IF step.exc # "none"
          THEN /\ Finish(Caught(files, step.exc,
                           Failure("Error editing Excel file", step.exc)), FALSE)
               /\ UNCHANGED i
          ELSE /\ i' = i + 1
               /\ UNCHANGED <<files, result, exc, escaped, saved, pc>>
    /\ UNCHANGED <<request, files0, disk, converter, lines, y_position, canvas>>

\* wb.save(filepath) and the return after the loop.
EditExcelSave ==
    /\ pc = "apply"
    /\ request.tool = "edit_excel_file"
    /\ i > Len(request.operations)
    /\ LET sv == SaveFile(files, disk, TargetPath, XlsxFile(doc)) IN
       IF sv.exc # "none"
       THEN Finish(Caught(sv.files, sv.exc,
                     Failure("Error editing Excel file", sv.exc)), TRUE)
       ELSE Finish(Returned(sv.files,
                     Success("Successfully edited Excel file", TargetPath)), TRUE)
    /\ UNCHANGED <<request, files0, disk, converter, doc, i, lines, y_position, canvas>>

\* ------------------------------------------------- convert_csv_to_excel

\* A well-formed CSV file, held as the frame pd.read_csv makes of it.
CsvFile(df) == [kind |-> "csv", df |-> df]

ConvertCsvOutcome(fs, d) ==
    IF ~Exists(fs, SourcePath)
    THEN Returned(fs, Failure("Source file not found", SourcePath))
    ELSE IF fs[SourcePath].kind # "csv"
    THEN Caught(fs, "ParserError", Failure("Error converting CSV to Excel", "ParserError"))
    ELSE
      LET df == fs[SourcePath].df
          mk == Makedirs(d)
          sv == SaveFile(fs, d, TargetPath, XlsxFile(ToExcel(df)))
      IN IF mk # "none"
         THEN Caught(fs, mk, Failure("Error converting CSV to Excel", mk))
         ELSE IF sv.exc # "none"
         THEN Caught(sv.files, sv.exc, Failure("Error converting CSV to Excel", sv.exc))
         ELSE Returned(sv.files,
                Success("Successfully converted CSV to Excel", TargetPath))

convert_csv_to_excel ==
    /\ pc = "call"
    /\ request.tool = "convert_csv_to_excel"
    /\ Finish(ConvertCsvOutcome(files, disk),
              files[SourcePath].kind = "csv" /\ Makedirs(disk) = "none")
    /\ UNCHANGED <<request, files0, disk, converter, doc, i, lines, y_position, canvas>>

\* ------------------------------------------------------ create_pdf_file

\* The test against the page's edge instead of the margin.
NeedsNewPageAtEdge(y) == y < 0

\* The test at the head of the loop body: the cursor is under the margin.
NeedsNewPage(y) == y < Margin

\* os.makedirs, canvas.Canvas, content.split and the cursor's start.
CreatePdfBegin ==
    /\ pc = "call"
    /\ request.tool = "create_pdf_file"
    /\ LET mk == Makedirs(disk) IN
       IF mk # "none"
       THEN /\ Finish(Caught(files, mk, Failure("Error creating PDF file", mk)), FALSE)
            /\ UNCHANGED <<i, lines, y_position, canvas>>
       ELSE /\ canvas' = NewCanvas
            /\ lines' = Split(request.content, NL)
            /\ y_position' = PageHeight - Margin
            /\ i' = 1
            /\ pc' = "draw"
            /\ UNCHANGED <<files, result, exc, escaped, saved>>
    /\ UNCHANGED <<request, files0, disk, converter, doc>>

\* One pass of the loop over lines.
CreatePdfLine ==
    /\ pc = "draw"
    /\ i <= Len(lines)
    /\ LET turn == NeedsNewPage(y_position)
           c == IF turn THEN ShowPage(canvas) ELSE canvas
           y == IF turn THEN PageHeight - Margin ELSE y_position
       IN /\ canvas' = DrawString(c, LeftMargin, y, lines[i])
          /\ y_position' = y - LineHeight
    /\ i' = i + 1
    /\ UNCHANGED <<request, files, files0, disk, converter, pc, doc, lines,
                   saved, exc, escaped, result>>

\* c.save() and the return after the loop.
CreatePdfSave ==
    /\ pc = "draw"
    /\ i > Len(lines)
    /\ LET sv == SaveFile(files, disk, TargetPath, PdfFile(SavedPages(canvas))) IN
       IF sv.exc # "none"
       THEN Finish(Caught(sv.files, sv.exc,
                     Failure("Error creating PDF file", sv.exc)), TRUE)
       ELSE Finish(Returned(sv.files,
                     Success("Successfully created PDF file", TargetPath)), TRUE)
    /\ UNCHANGED <<request, files0, disk, converter, doc, i, lines, y_position, canvas>>

\* -------------------------------------------------- convert_word_to_pdf

\* What docx2pdf writes for a document: Word's rendering of its paragraphs.
RenderedPdf(d) == [kind |-> "pdf", rendering_of |-> d]

ConvertWordToPdfOutcome(fs, d, has_word) ==
    IF ~Exists(fs, SourcePath)
    THEN Returned(fs, Failure("Source file not found", SourcePath))
    ELSE
      LET mk == Makedirs(d) IN
      IF mk # "none"
      THEN Caught(fs, mk, Failure("Error converting Word to PDF", mk))
      ELSE IF ~has_word
      THEN Caught(fs, "NotImplementedError",
                  Failure("Error converting Word to PDF", "NotImplementedError"))
      ELSE IF ~LoadsAsDocx(fs[SourcePath])
      THEN Caught(fs, "ConversionError",
                  Failure("Error converting Word to PDF", "ConversionError"))
      ELSE LET sv == SaveFile(fs, d, TargetPath,
                              RenderedPdf(fs[SourcePath].paragraphs)) IN
        IF sv.exc # "none"
        THEN Caught(sv.files, sv.exc, Failure("Error converting Word to PDF", sv.exc))
        ELSE Returned(sv.files, Success("Successfully converted Word to PDF", TargetPath))

convert_word_to_pdf ==
    /\ pc = "call"
    /\ request.tool = "convert_word_to_pdf"
    /\ Finish(ConvertWordToPdfOutcome(files, disk, converter),
              /\ Exists(files, SourcePath) /\ Makedirs(disk) = "none"
              /\ converter /\ LoadsAsDocx(files[SourcePath]))
    /\ UNCHANGED <<request, files0, disk, converter, doc, i, lines, y_position, canvas>>

\* ------------------------------------------------ the edit calls, whole

\* One descriptor of either edit tool.
ApplyOp(tool, handle, op) ==
    IF tool = "edit_word_document" THEN ApplyWordOp(handle, op)
    ELSE ApplyExcelOp(handle, op)

\* The descriptor loop of either edit tool: in order, up to the first that
\* raises.
RECURSIVE RunBatch(_, _, _)
RunBatch(tool, handle, ops) ==
    IF ops = << >> THEN [exc |-> "none", doc |-> handle]
    ELSE LET step == ApplyOp(tool, handle, Head(ops)) IN
         IF step.exc # "none" THEN step
         ELSE RunBatch(tool, step.doc, Tail(ops))

\* Whether the tool's loader opens the file, and the handle it gives.
Loads(tool, f) ==
    IF tool = "edit_word_document" THEN LoadsAsDocx(f) ELSE LoadsAsXlsx(f)
Handle(tool, f) ==
    IF tool = "edit_word_document" THEN f.paragraphs ELSE f.sheets
FileOf(tool, handle) ==
    IF tool = "edit_word_document" THEN DocxFile(handle) ELSE XlsxFile(handle)

\* An edit call from its arrival to its return: the files it leaves and
\* whether it reports success.
EditOutcome(tool, fs, d, ops) ==
    IF ~Exists(fs, TargetPath) \/ ~Loads(tool, fs[TargetPath])
    THEN [files |-> fs, success |-> FALSE]
    ELSE LET run == RunBatch(tool, Handle(tool, fs[TargetPath]), ops) IN
         IF run.exc # "none" THEN [files |-> fs, success |-> FALSE]
         ELSE LET sv == SaveFile(fs, d, TargetPath, FileOf(tool, run.doc)) IN
              [files |-> sv.files, success |-> sv.exc = "none"]

\* ------------------------------------------------------------ the calls

\* Batches of descriptors.
WordBatches == SeqsUpTo(WordDescriptors, MaxOps)
ExcelBatches == SeqsUpTo(ExcelDescriptors, MaxOps)

\* JSON contents: grids of scalar lexemes up to MaxGrid x MaxGrid, the grid
\* of the documented scenario, an empty array, a flat array and a scalar.
GridCells == {"\"a\"", "\"1\""}
Grids ==
    UNION {[1..r -> [1..c -> GridCells]] : r \in 1..MaxGrid, c \in 1..MaxGrid}
ScenarioGrid == <<<<"\"a\"", "\"b\"">>, <<"\"1\"", "\"2\"">>>>
JsonContents ==
    {JsonRows(g) : g \in Grids \cup {ScenarioGrid}}
    \cup {<<"[", "]">>, <<"[", "\"a\"", ",", "7", "]">>, <<"7">>}

\* Well-formed CSV sources, as the frames read_csv makes of them.
CsvFrames ==
    { Frame(<<StrValue(<<"a">>)>>, << >>),
      Frame(<<StrValue(<<"a">>), StrValue(<<"b">>)>>,
            <<<<IntValue(<<"1">>), StrValue(<<"c">>)>>, <<IntValue(<<"2">>), NaN>>>>) }

\* PDF contents: n lines, the k-th the last digit of k; none is the empty str.
PdfContent(n) ==
    [k \in 1..(2 * n - 1) |->
        IF k % 2 = 0 THEN NL ELSE Digits[(((k + 1) \div 2) % 10) + 1]]
PdfContents == {PdfContent(n) : n \in 0..MaxLines}

\* A call: the request and the world it meets.
Call(req, src, tgt, d, has_word) ==
    [request |-> req, files |-> Fs(src, tgt), disk |-> d, converter |-> has_word]

\* The volumes a call that creates its target may meet, and those a call on
\* an existing file may meet (its directory exists).
DisksOfTarget(tgt) ==
    IF tgt.kind = "absent" THEN DiskStates ELSE DiskStates \ {"blocked"}

Calls ==
    {Call([tool |-> "create_word_document", content |-> t], Absent, tgt, d, TRUE) :
        t \in Texts, tgt \in {Absent}, d \in DiskStates}
    \cup
    {Call([tool |-> "create_word_document", content |-> <<"a">>], Absent, tgt, d, TRUE) :
        tgt \in {DocxFile(w) : w \in WordDocuments}, d \in DiskStates \ {"blocked"}}
    \cup
    UNION {{Call([tool |-> "edit_word_document", operations |-> ops],
                 Absent, tgt, d, TRUE) : ops \in WordBatches, d \in DisksOfTarget(tgt) \ {"blocked"}} :
           tgt \in {Absent, Garbage} \cup {DocxFile(w) : w \in WordDocuments}}
    \cup
    {Call([tool |-> "convert_txt_to_word"], src, Absent, d, TRUE) :
        src \in {Absent, Garbage} \cup {TxtFile(t) : t \in Texts}, d \in DiskStates}
    \cup
    {Call([tool |-> "extract_docx_text"], Absent, tgt, "ok", TRUE) :
        tgt \in {Absent, Garbage} \cup {DocxFile(w) : w \in WordDocuments}}
    \cup
    {Call([tool |-> "create_excel_file", content |-> t], Absent, Absent, d, TRUE) :
        t \in JsonContents \cup Texts, d \in DiskStates}
    \cup
    UNION {{Call([tool |-> "edit_excel_file", operations |-> ops],
                 Absent, tgt, d, TRUE) : ops \in ExcelBatches, d \in DisksOfTarget(tgt) \ {"blocked"}} :
           tgt \in {Absent, Garbage} \cup {XlsxFile(w) : w \in Workbooks}}
    \cup
    {Call([tool |-> "convert_csv_to_excel"], src, Absent, d, TRUE) :
        src \in {Absent, Garbage} \cup {CsvFile(f) : f \in CsvFrames}, d \in DiskStates}
    \cup
    {Call([tool |-> "create_pdf_file", content |-> t], Absent, Absent, d, TRUE) :
        t \in PdfContents, d \in {"ok", "blocked", "full"}}
    \cup
    {Call([tool |-> "convert_word_to_pdf"], src, Absent, d, w) :
        src \in {Absent, Garbage} \cup {DocxFile(x) : x \in WordDocuments},
        d \in DiskStates, w \in BOOLEAN}

Init ==
    \E c \in Calls :
        /\ request = c.request
        /\ files = c.files
        /\ files0 = c.files
        /\ disk = c.disk
        /\ converter = c.converter
        /\ pc = "call"
        /\ doc = << >>
        /\ i = 0
        /\ lines = << >>
        /\ y_position = 0
        /\ canvas = NewCanvas
        /\ saved = FALSE
        /\ exc = "none"
        /\ escaped = FALSE
        /\ result = NoResult

Next ==
    \/ create_word_document
    \/ EditWordOpen
    \/ EditWordApply
    \/ EditWordSave
    \/ convert_txt_to_word
    \/ extract_docx_text
    \/ create_excel_file
    \/ EditExcelOpen
    \/ EditExcelApply
    \/ EditExcelSave
    \/ convert_csv_to_excel
    \/ CreatePdfBegin
    \/ CreatePdfLine
    \/ CreatePdfSave
    \/ convert_word_to_pdf

Spec == Init /\ [][Next]_vars

\* ------------------------------------------------------------ properties

EditTools == {"edit_word_document", "edit_excel_file"}
Done == pc = "done"
Ops == request.operations

\* C1: every call returns exactly one envelope and no exception leaves a
\* handler: no dict exists before the return, the dict returned carries a
\* success flag and a message, and a call in which anything raised (a path
\* check, a load, a descriptor, a directory, a save) returns success false.
C1_AlwaysOneEnvelope ==
    /\ ~escaped
    /\ (~Done) => (result = NoResult /\ exc = "none")
    /\ Done => /\ result # NoResult
               /\ "success" \in DOMAIN result
               /\ "message" \in DOMAIN result
               /\ (exc # "none" => ~result.success)

\* A descriptor raised after an earlier one had changed the handle, and the
\* call still returned a failure envelope.
C1_Witness ==
    /\ Done
    /\ request.tool = "edit_excel_file"
    /\ exc = "ValueError"
    /\ i = 2
    /\ result # NoResult
    /\ ~result.success

\* C2: every failure envelope of every tool has the shape
\* {success: false, message, filepath: null}.
C2_FailureShape ==
    (Done /\ result # NoResult /\ ~result.success) =>
        /\ DOMAIN result = {"success", "message", "filepath"}
        /\ result.filepath = None

\* C3: in edit_excel_file the workbook keeps at least one sheet through every
\* descriptor, in the handle and in the file saved, and a delete_sheet
\* descriptor met with one sheet left leaves the sheet names as they were.
C3_NeverBelowOneSheet ==
    [][(request.tool = "edit_excel_file" /\ pc = "apply") =>
         /\ Len(doc') >= 1
         /\ (/\ i <= Len(Ops)
             /\ Get(Ops[i], "type", None) = "delete_sheet"
             /\ Len(doc) = 1) => SheetNames(doc') = SheetNames(doc)
         /\ (pc' = "done" /\ files'[TargetPath].kind = "xlsx") =>
                Len(files'[TargetPath].sheets) >= 1]_vars

\* delete_sheet was applied to a workbook of one sheet, which is still there.
C3_Witness ==
    /\ request.tool = "edit_excel_file"
    /\ pc = "apply"
    /\ i = 2
    /\ Get(Ops[1], "type", None) = "delete_sheet"
    /\ Len(files0[TargetPath].sheets) = 1
    /\ doc = files0[TargetPath].sheets

\* The used range of a sheet's cells, as openpyxl's max_row and max_column.
MaxRow(cells) == Max({1} \cup {t[1] : t \in cells})
MaxColumn(cells) == Max({1} \cup {t[2] : t \in cells})

\* The cells the descriptor op addresses in the workbook wb: those of the
\* sheet it names (the first by default), none when the sheet is not there.
AddressedCells(wb, op) ==
    LET name == Get(op, "sheet", SheetNames(wb)[1]) IN
    IF name \in SheetNameSet(wb) THEN CellsOf(wb, name) ELSE {}

\* Whether the descriptor op carries an index out of range for the handle.
OutOfRange(tool, handle, op) ==
    /\ IsDict(op)
    /\ LET type == Get(op, "type", None) IN
       IF tool = "edit_word_document"
       THEN /\ type \in {"edit_paragraph", "delete_paragraph"}
            /\ Get(op, "index", 0) \notin 0..(Len(handle) - 1)
       ELSE LET cells == AddressedCells(handle, op)
                row_out == Get(op, "row", 1) \notin 1..MaxRow(cells)
                col_out == Get(op, "col", 1) \notin 1..MaxColumn(cells)
            IN \/ type = "update_cell" /\ (row_out \/ col_out)
               \/ type = "delete_row" /\ row_out
               \/ type = "delete_column" /\ col_out

\* C4: an edit batch that holds a descriptor whose paragraph index, row or
\* column is out of range (zero and negative values too) ends as the batch
\* without that descriptor ends: the same file, the same success flag (true
\* when nothing else fails).
C4_OutOfRangeIsSkipped ==
    (Done /\ request.tool \in EditTools
          /\ Exists(files0, TargetPath)
          /\ Loads(request.tool, files0[TargetPath])) =>
      \A k \in 1..Len(Ops) :
        LET before == RunBatch(request.tool,
                               Handle(request.tool, files0[TargetPath]),
                               SubSeq(Ops, 1, k - 1))
            without == EditOutcome(request.tool, files0, disk, RemoveAt(Ops, k))
        IN (before.exc = "none" /\ OutOfRange(request.tool, before.doc, Ops[k])) =>
             /\ files = without.files
             /\ result.success = without.success

\* The types each descriptor loop recognizes.
RecognizedTypes ==
    IF request.tool = "edit_word_document"
    THEN {"add_paragraph", "add_heading", "edit_paragraph", "delete_paragraph"}
    ELSE {"update_cell", "update_range", "delete_row", "delete_column",
          "add_sheet", "delete_sheet"}

\* The loop is about to apply a descriptor of a type it does not recognize.
AtUnknownType ==
    /\ request.tool \in EditTools
    /\ pc = "apply"
    /\ i <= Len(Ops)
    /\ IsDict(Ops[i])
    /\ Get(Ops[i], "type", None) \notin RecognizedTypes

NamesAbsentSheet ==
    /\ request.tool = "edit_excel_file"
    /\ "sheet" \in DOMAIN Ops[i]
    /\ Ops[i].sheet \notin SheetNameSet(doc)

C6_FailureSavesNothing ==
    (/\ Done
     /\ request.tool \in EditTools
     /\ ~result.success
     /\ \/ ~Exists(files0, TargetPath)
        \/ ~Loads(request.tool, files0[TargetPath])
        \/ RunBatch(request.tool, Handle(request.tool, files0[TargetPath]),
                    Ops).exc # "none")
    => (~saved /\ files = files0)

\* The second descriptor raised after the first had changed the handle; the
\* file is as it was.
C6_Witness ==
    /\ Done
    /\ request.tool = "edit_excel_file"
    /\ ~result.success
    /\ i = 2
    /\ exc = "ValueError"
    /\ doc # files0[TargetPath].sheets
    /\ files = files0

\* The descriptor may create a sheet: add_sheet, or any with a 'sheet' field.
MayCreateSheet(op) ==
    IsDict(op) /\ (Get(op, "type", None) = "add_sheet" \/ "sheet" \in DOMAIN op)

CellsOfGrid(g) ==
    {<<r, c, ScalarValue(g[r][c])>> : r \in 1..Len(g), c \in 1..Len(g[1])}

\* C8: create_excel_file with a JSON array of R rows of C cells writes a
\* sheet whose grid is exactly R x C, cell (r, c) the c-th value of row r.
C8_JsonGridIsWritten ==
    (Done /\ request.tool = "create_excel_file" /\ result.success) =>
      \A g \in Grids \cup {ScenarioGrid} :
        request.content = JsonRows(g) =>
          files[TargetPath].sheets[1].cells = CellsOfGrid(g)

\* The pages of the canvas, the open one last, and the strings on them in
\* the order drawn.
PagesOf(c) == Append(c.pages, c.page)
RECURSIVE Flatten(_)
Flatten(pages) ==
    IF pages = << >> THEN << >> ELSE Head(pages) \o Flatten(Tail(pages))

\* C9: in create_pdf_file the cursor starts at the page height less 40; the
\* k-th string of a page is drawn 15 * (k - 1) under that start, never under
\* the 40pt margin, and the cursor is then 15 under it; a page is closed only
\* when the next string would fall under the margin; the strings drawn are
\* the lines so far in input order; and 100 lines fill more than one page.
C9_CursorAndPages ==
    (request.tool = "create_pdf_file" /\ lines # << >>) =>
      LET shown == PagesOf(canvas)
          drawn == Flatten(shown)
      IN
      /\ i = 1 => y_position = PageHeight - 40
      /\ \A p \in 1..Len(shown) : \A k \in 1..Len(shown[p]) :
            /\ shown[p][k].y = PageHeight - 40 - 15 * (k - 1)
            /\ shown[p][k].y >= 40
      /\ canvas.page # << >> =>
            y_position = canvas.page[Len(canvas.page)].y - 15
      /\ \A p \in 1..Len(canvas.pages) :
            /\ canvas.pages[p] # << >>
            /\ canvas.pages[p][Len(canvas.pages[p])].y - 15 < 40
      /\ Len(drawn) = i - 1
      /\ \A k \in 1..Len(drawn) : drawn[k].text = lines[k]
      /\ (Done /\ result.success) =>
            /\ Flatten(files[TargetPath].pages) = drawn
            /\ Len(lines) = 100 => Len(files[TargetPath].pages) > 1

\* A content of 100 lines was written: on three pages.
C9_Witness ==
    /\ Done
    /\ request.tool = "create_pdf_file"
    /\ result # NoResult
    /\ result.success
    /\ Len(lines) = 100
    /\ Len(files[TargetPath].pages) = 3

\* C10: the document create_word_document and convert_txt_to_word save holds
\* one paragraph per line of the text that is not blank, in line order, and
\* none for an empty or whitespace-only line.
C10_ParagraphPerLine ==
    (/\ Done
     /\ request.tool \in {"create_word_document", "convert_txt_to_word"}
     /\ result.success)
    => LET text == IF request.tool = "create_word_document"
                   THEN request.content ELSE files0[SourcePath].text
           saved_doc == files[TargetPath].paragraphs
       IN [k \in 1..Len(saved_doc) |-> saved_doc[k].text]
            = SelectSeqNonBlank(Split(text, NL))

\* The edit call found its file and loaded it.
Loaded ==
    /\ request.tool \in EditTools
    /\ Exists(files0, TargetPath)
    /\ Loads(request.tool, files0[TargetPath])

\* The first k descriptors of the batch applied in list order to the handle
\* that was loaded.
Prefix(k) ==
    RunBatch(request.tool, Handle(request.tool, files0[TargetPath]),
             SubSeq(Ops, 1, k))

\* The loop skips the descriptor op on the handle with a warning: in
\* edit_word_document an unrecognized type or a paragraph index outside the
\* current paragraphs, in edit_excel_file an unrecognized type once the
\* sheet it names is open.
SkippedOn(handle, op) ==
    /\ IsDict(op)
    /\ \/ Get(op, "type", None) \notin RecognizedTypes
       \/ OutOfRange("edit_word_document", handle, op)
             /\ request.tool = "edit_word_document"
    /\ ApplyOp(request.tool, handle, op).exc = "none"

\* C11: the descriptors of an edit batch are applied in list order to one
\* handle, each (its index test against the current paragraphs included) on
\* what the earlier ones left; a descriptor that is skipped as out of range
\* or unknown raises nothing and leaves the earlier mutations in place, and
\* the document saved is the loaded one with every descriptor applied in
\* order, the call returning success true when nothing raised.
C11_InOrderNoRollback ==
    (Loaded /\ pc \in {"apply", "done"}) =>
      LET all == Prefix(Len(Ops)) IN
      /\ pc = "apply" =>
            /\ i \in 1..(Len(Ops) + 1)
            /\ Prefix(i - 1).exc = "none"
            /\ doc = Prefix(i - 1).doc
      /\ (Done /\ result.success) =>
            /\ all.exc = "none"
            /\ files[TargetPath] = FileOf(request.tool, all.doc)
      /\ Done =>
            \A k \in 1..Len(Ops) :
              LET before == Prefix(k - 1) IN
              (before.exc = "none" /\ SkippedOn(before.doc, Ops[k])) =>
                /\ Prefix(k).exc = "none"
                /\ SubSeq(Prefix(k).doc, 1, Len(before.doc)) = before.doc
                /\ request.tool = "edit_word_document" =>
                      Prefix(k).doc = before.doc
                /\ (all.exc = "none" /\ disk = "ok") =>
                      /\ result.success
                      /\ files[TargetPath] = FileOf(request.tool, all.doc)

\* add_paragraph then an edit_paragraph at index 999 on a one-paragraph
\* document: the call succeeded and the saved document has the new paragraph.
C11_Witness ==
    /\ Done
    /\ request.tool = "edit_word_document"
    /\ Ops = <<[type |-> "add_paragraph", text |-> <<"x">>],
               [type |-> "edit_paragraph", index |-> 999, text |-> <<"y">>]>>
    /\ result.success
    /\ Len(files0[TargetPath].paragraphs) = 1
    /\ Len(files[TargetPath].paragraphs) = 2
    /\ files[TargetPath].paragraphs[2].text = <<"x">>

====
